---------------------------- MODULE Spec2Model ----------------------------
(***************************************************************************)
(* Model of src/calender.py: the syllabus -> calendar pipeline.            *)
(*                                                                         *)
(* A str is a sequence of one-character strings, so that the regular       *)
(* expressions, str.lower(), str.find(), slicing and str.strip() of the    *)
(* source are computed character by character.  A datetime.date is the     *)
(* tuple <<year, month, day>>; date arithmetic goes through the proleptic  *)
(* Gregorian ordinal exactly as datetime does.                             *)
(*                                                                         *)
(* The libraries the script calls (PyMuPDF, dateutil, pandas, ics, fpdf,   *)
(* streamlit) are taken at their interface: extract_text yields the text,  *)
(* the two encoders yield the entries they are handed, in the order they   *)
(* are handed them, and none of the calls fails except dtparse.parse on a  *)
(* string that names no date.                                              *)
(***************************************************************************)
EXTENDS Integers, Sequences, FiniteSets, TLC

(***************************************************************************)
(* Characters                                                              *)
(***************************************************************************)
Digits == <<"0", "1", "2", "3", "4", "5", "6", "7", "8", "9">>

UpperCase == <<"A", "B", "C", "D", "E", "F", "G", "H", "I", "J", "K", "L", "M",
               "N", "O", "P", "Q", "R", "S", "T", "U", "V", "W", "X", "Y", "Z">>

LowerCase == <<"a", "b", "c", "d", "e", "f", "g", "h", "i", "j", "k", "l", "m",
               "n", "o", "p", "q", "r", "s", "t", "u", "v", "w", "x", "y", "z">>

Range(s) == {s[i] : i \in DOMAIN s}

IsDigit(c) == c \in Range(Digits)

IsUpper(c) == c \in Range(UpperCase)

IsLower(c) == c \in Range(LowerCase)

\* \w of the re module
IsWord(c) == IsDigit(c) \/ IsUpper(c) \/ IsLower(c) \/ c = "_"

\* \s of the re module, and the characters str.strip() removes
IsSpace(c) == c \in {" ", "\n", "\t"}

IndexOf(c, s) == CHOOSE i \in DOMAIN s : s[i] = c

\* str.lower() on one character
lower_char(c) == IF IsUpper(c) THEN LowerCase[IndexOf(c, UpperCase)] ELSE c

\* str.upper() on one character
upper_char(c) == IF IsLower(c) THEN UpperCase[IndexOf(c, LowerCase)] ELSE c

\* str.lower()
lower(s) == [i \in DOMAIN s |-> lower_char(s[i])]

\* int(c) for one decimal digit
DigitVal(c) == IndexOf(c, Digits) - 1

\* s[a:b] with 0-based Python bounds, 0 <= a
Slice(s, a, b) ==
    LET hi == IF b > Len(s) THEN Len(s) ELSE b
    IN  IF a >= hi THEN << >> ELSE SubSeq(s, a + 1, hi)

\* int(s) for a string of decimal digits
RECURSIVE int(_)
int(s) ==
    IF Len(s) = 0 THEN 0
    ELSE 10 * int(SubSeq(s, 1, Len(s) - 1)) + DigitVal(s[Len(s)])

\* str(n) for n >= 0
RECURSIVE str(_)
str(n) ==
    IF n < 10 THEN <<Digits[n + 1]>>
    ELSE str(n \div 10) \o <<Digits[(n % 10) + 1]>>

\* the zero padding of the %02d / %04d fields of date.isoformat()
RECURSIVE zfill(_, _)
zfill(s, w) == IF Len(s) >= w THEN s ELSE zfill(<<"0">> \o s, w)

\* the number of consecutive characters from 0-based position p on that
\* satisfy a digit / whitespace / word test
RECURSIVE DigitRun(_, _)
DigitRun(t, p) ==
    IF p < Len(t) /\ IsDigit(t[p + 1]) THEN 1 + DigitRun(t, p + 1) ELSE 0

RECURSIVE SpaceRun(_, _)
SpaceRun(t, p) ==
    IF p < Len(t) /\ IsSpace(t[p + 1]) THEN 1 + SpaceRun(t, p + 1) ELSE 0

RECURSIVE WordRun(_, _)
WordRun(t, p) ==
    IF p < Len(t) /\ IsWord(t[p + 1]) THEN 1 + WordRun(t, p + 1) ELSE 0

\* \b at 0-based position p (between t[p] and t[p+1], 1-based)
WordBoundary(t, p) ==
    LET before == p >= 1 /\ p <= Len(t) /\ IsWord(t[p])
        after  == p < Len(t) /\ IsWord(t[p + 1])
    IN  before # after

\* the literal lit occurs at 0-based position p, ignoring case (re.I)
LitAt(t, p, lit) ==
    /\ p + Len(lit) <= Len(t)
    /\ \A i \in 1..Len(lit) : lower_char(t[p + i]) = lit[i]

\* the literal lit occurs at 0-based position p, letter case included
ExactAt(t, p, lit) ==
    /\ p + Len(lit) <= Len(t)
    /\ \A i \in 1..Len(lit) : t[p + i] = lit[i]

\* str.find(sub): the lowest 0-based index, or -1
find(t, sub) ==
    LET hits == {p \in 0..Len(t) : ExactAt(t, p, sub)}
    IN  IF hits = {} THEN -1
        ELSE CHOOSE p \in hits : \A q \in hits : p <= q

\* sub in t
contains(t, sub) == find(t, sub) # -1

\* str.strip()
RECURSIVE lstrip(_)
lstrip(s) == IF Len(s) > 0 /\ IsSpace(s[1]) THEN lstrip(Tail(s)) ELSE s

RECURSIVE rstrip(_)
rstrip(s) ==
    IF Len(s) > 0 /\ IsSpace(s[Len(s)])
    THEN rstrip(SubSeq(s, 1, Len(s) - 1)) ELSE s

strip(s) == rstrip(lstrip(s))

\* str.replace("\n", " ")
replace_newlines(s) == [i \in DOMAIN s |-> IF s[i] = "\n" THEN " " ELSE s[i]]

\* str.capitalize()
capitalize(s) ==
    [i \in DOMAIN s |-> IF i = 1 THEN upper_char(s[i]) ELSE lower_char(s[i])]

(***************************************************************************)
(* datetime.date                                                           *)
(***************************************************************************)
is_leap(y) == (y % 4 = 0) /\ ((y % 100 # 0) \/ (y % 400 = 0))

days_in_month(y, m) ==
    IF m = 2 THEN (IF is_leap(y) THEN 29 ELSE 28)
    ELSE IF m \in {4, 6, 9, 11} THEN 30 ELSE 31

\* the check of the date constructor (MINYEAR = 1, MAXYEAR = 9999)
valid_date(y, m, d) ==
    /\ y >= 1 /\ y <= 9999
    /\ m >= 1 /\ m <= 12
    /\ d >= 1 /\ d <= days_in_month(y, m)

days_before_year(y) ==
    LET p == y - 1 IN p * 365 + (p \div 4) - (p \div 100) + (p \div 400)

RECURSIVE days_before_month(_, _)
days_before_month(y, m) ==
    IF m = 1 THEN 0 ELSE days_before_month(y, m - 1) + days_in_month(y, m - 1)

toordinal(dte) ==
    days_before_year(dte[1]) + days_before_month(dte[1], dte[2]) + dte[3]

fromordinal(n) ==
    LET y == CHOOSE yy \in ((n \div 366))..((n \div 365) + 1) :
                 days_before_year(yy) < n /\ n <= days_before_year(yy + 1)
        r == n - days_before_year(y)
        m == CHOOSE mm \in 1..12 :
                 /\ days_before_month(y, mm) < r
                 /\ r <= days_before_month(y, mm) + days_in_month(y, mm)
    IN  <<y, m, r - days_before_month(y, m)>>

\* d + dt.timedelta(weeks=w)
add_weeks(dte, w) == fromordinal(toordinal(dte) + 7 * w)

\* d1 <= d2 on dates
date_le(d1, d2) == toordinal(d1) <= toordinal(d2)

\* date.isoformat(): "YYYY-MM-DD"
isoformat(dte) ==
    zfill(str(dte[1]), 4) \o <<"-">> \o zfill(str(dte[2]), 2)
        \o <<"-">> \o zfill(str(dte[3]), 2)


(***************************************************************************)
(* Constants of the module                                                 *)
(***************************************************************************)
KEYWORDS ==
    <<<<"a", "s", "s", "i", "g", "n", "m", "e", "n", "t">>,
      <<"q", "u", "i", "z">>,
      <<"m", "i", "d", "t", "e", "r", "m">>,
      <<"e", "x", "a", "m">>,
      <<"p", "r", "e", "s", "e", "n", "t", "a", "t", "i", "o", "n">>,
      <<"p", "r", "o", "j", "e", "c", "t">>,
      <<"l", "a", "b">>>>

\* the default half-width of window_context
win == 80

\* the length extract_title cuts a title to
TitleLen == 40

\* the ellipsis character U+2026 appended to a cut title, one character
Ellipsis == "..."

IsDateSep(t, p) == p < Len(t) /\ t[p + 1] \in {"/", "-"}

\* ABS_DATE_RE, first alternative, tried at 0-based position p:
\*   \b \d{1,2} [/-] \d{1,2} [/-] \d{2,4} \b
\* The result is the end of the match, or -1.  Every quantified group is
\* followed by a character it cannot itself match, so backtracking never
\* finds a match with a shorter group: each digit run is taken whole.
AbsNumericEnd(t, p) ==
    LET a  == DigitRun(t, p)
        p2 == p + a + 1
        b  == DigitRun(t, p2)
        p3 == p2 + b + 1
        c  == DigitRun(t, p3)
        e  == p3 + c
    IN  IF /\ WordBoundary(t, p)
           /\ a \in 1..2 /\ IsDateSep(t, p + a)
           /\ b \in 1..2 /\ IsDateSep(t, p2 + b)
           /\ c \in 2..4 /\ WordBoundary(t, e)
        THEN e ELSE -1

\* ABS_DATE_RE, second alternative:  \b \w+ \s+ \d{1,2} , \s* \d{4} \b
AbsMonthEnd(t, p) ==
    LET w  == WordRun(t, p)
        s  == SpaceRun(t, p + w)
        p2 == p + w + s
        d  == DigitRun(t, p2)
        p3 == p2 + d + 1
        s2 == SpaceRun(t, p3)
        y  == DigitRun(t, p3 + s2)
        e  == p3 + s2 + y
    IN  IF /\ WordBoundary(t, p)
           /\ w >= 1 /\ s >= 1
           /\ d \in 1..2 /\ p2 + d < Len(t) /\ t[p2 + d + 1] = ","
           /\ y = 4 /\ WordBoundary(t, e)
        THEN e ELSE -1

\* ABS_DATE_RE.match at position p: the alternatives in their order
AbsEnd(t, p) ==
    IF AbsNumericEnd(t, p) # -1 THEN AbsNumericEnd(t, p) ELSE AbsMonthEnd(t, p)

\* ABS_DATE_RE.findall(text): the matched substrings, left to right,
\* non-overlapping
RECURSIVE ABS_DATE_RE_findall(_, _)
ABS_DATE_RE_findall(t, p) ==
    IF p >= Len(t) THEN << >>
    ELSE LET e == AbsEnd(t, p)
         IN  IF e # -1
             THEN <<Slice(t, p, e)>> \o ABS_DATE_RE_findall(t, e)
             ELSE ABS_DATE_RE_findall(t, p + 1)

\* A match of WEEK_RE: kind 1 is `week(s) N` / `week(s) N-M`, kind 2 is
\* `Nth week`; g1, g2, g3 are m.group(1), m.group(2), m.group(3), with << >>
\* for a group that did not take part in the match.
NoWeekMatch == [end |-> -1, g1 |-> << >>, g2 |-> << >>, g3 |-> << >>]

WEEK == <<"w", "e", "e", "k">>

\* WEEK_RE, first alternative:
\*   \b week(?:s)? \s* (\d{1,2}) (?: \s* - \s* (\d{1,2}) )? \b
WeekCase1(t, p) ==
    LET s   == IF LitAt(t, p + 4, <<"s">>) THEN 1 ELSE 0
        p1  == p + 4 + s
        p2  == p1 + SpaceRun(t, p1)
        n   == DigitRun(t, p2)
        e1  == p2 + n
        q1  == e1 + SpaceRun(t, e1)
        q2  == q1 + 1 + SpaceRun(t, q1 + 1)
        m   == DigitRun(t, q2)
        e2  == q2 + m
        rng == /\ q1 < Len(t) /\ t[q1 + 1] = "-"
               /\ m \in 1..2 /\ WordBoundary(t, e2)
    IN  IF ~(WordBoundary(t, p) /\ LitAt(t, p, WEEK) /\ n \in 1..2)
        THEN NoWeekMatch
        ELSE IF rng
        THEN [end |-> e2, g1 |-> Slice(t, p2, e1), g2 |-> Slice(t, q2, e2),
              g3 |-> << >>]
        ELSE IF WordBoundary(t, e1)
        THEN [end |-> e1, g1 |-> Slice(t, p2, e1), g2 |-> << >>, g3 |-> << >>]
        ELSE NoWeekMatch

\* WEEK_RE, second alternative:  \b (\d{1,2})(st|nd|rd|th) \s+ week \b
WeekCase2(t, p) ==
    LET n  == DigitRun(t, p)
        p1 == p + n
        sf == \E x \in {<<"s", "t">>, <<"n", "d">>, <<"r", "d">>, <<"t", "h">>} :
                  LitAt(t, p1, x)
        s  == SpaceRun(t, p1 + 2)
        p2 == p1 + 2 + s
    IN  IF /\ WordBoundary(t, p) /\ n \in 1..2 /\ sf /\ s >= 1
           /\ LitAt(t, p2, WEEK) /\ WordBoundary(t, p2 + 4)
        THEN [end |-> p2 + 4, g1 |-> << >>, g2 |-> << >>, g3 |-> Slice(t, p, p1)]
        ELSE NoWeekMatch

WeekAt(t, p) ==
    IF WeekCase1(t, p).end # -1 THEN WeekCase1(t, p) ELSE WeekCase2(t, p)

\* WEEK_RE.finditer(text): the matches, left to right, non-overlapping
RECURSIVE WEEK_RE_finditer(_, _)
WEEK_RE_finditer(t, p) ==
    IF p >= Len(t) THEN << >>
    ELSE LET m == WeekAt(t, p)
         IN  IF m.end # -1
             THEN <<m>> \o WEEK_RE_finditer(t, m.end)
             ELSE WEEK_RE_finditer(t, p + 1)

(***************************************************************************)
(* dateutil.parser.parse(ds, fuzzy=True).date(), on the strings            *)
(* ABS_DATE_RE can match.  The result is <<year, month, day>>, or          *)
(* ParseError where the parser raises.                                     *)
(***************************************************************************)
ParseError == << >>

\* the month names dateutil knows, lower-cased, by month number
MONTHS ==
    <<{<<"j", "a", "n">>, <<"j", "a", "n", "u", "a", "r", "y">>},
      {<<"f", "e", "b">>, <<"f", "e", "b", "r", "u", "a", "r", "y">>},
      {<<"m", "a", "r">>, <<"m", "a", "r", "c", "h">>},
      {<<"a", "p", "r">>, <<"a", "p", "r", "i", "l">>},
      {<<"m", "a", "y">>},
      {<<"j", "u", "n">>, <<"j", "u", "n", "e">>},
      {<<"j", "u", "l">>, <<"j", "u", "l", "y">>},
      {<<"a", "u", "g">>, <<"a", "u", "g", "u", "s", "t">>},
      {<<"s", "e", "p">>, <<"s", "e", "p", "t">>,
       <<"s", "e", "p", "t", "e", "m", "b", "e", "r">>},
      {<<"o", "c", "t">>, <<"o", "c", "t", "o", "b", "e", "r">>},
      {<<"n", "o", "v">>, <<"n", "o", "v", "e", "m", "b", "e", "r">>},
      {<<"d", "e", "c">>, <<"d", "e", "c", "e", "m", "b", "e", "r">>}>>

\* the date the run takes place on: parse() fills the fields the string
\* leaves out from it and pivots two-digit years around its year
Today == <<2024, 12, 16>>

\* a two-digit year is moved into the century of Today, then to within 50
\* years of it; a year written with three or four digits is kept
convertyear(y, century_specified) ==
    IF y >= 100 \/ century_specified THEN y
    ELSE LET c == y + (Today[1] \div 100) * 100
         IN  IF c >= Today[1] + 50 THEN c - 100
             ELSE IF c < Today[1] - 50 THEN c + 100
             ELSE c

\* date(y, m, d), raising for a date that does not exist
make_date(y, m, d) == IF valid_date(y, m, d) THEN <<y, m, d>> ELSE ParseError

\* three numbers a, b, c with no month name: year first when a > 31, day
\* first when a > 12, month first otherwise
resolve_numeric(a, b, c, century_specified) ==
    IF a > 31 THEN make_date(convertyear(a, century_specified), b, c)
    ELSE IF a > 12 THEN make_date(convertyear(c, century_specified), b, a)
    ELSE make_date(convertyear(c, century_specified), a, b)

\* `D[/-]M[/-]Y`
parse_numeric(ds) ==
    LET a  == DigitRun(ds, 0)
        b  == DigitRun(ds, a + 1)
        p3 == a + b + 2
    IN  resolve_numeric(int(Slice(ds, 0, a)), int(Slice(ds, a + 1, a + 1 + b)),
                        int(Slice(ds, p3, Len(ds))), Len(ds) - p3 > 2)

\* `word D, YYYY` with an alphabetic word: a month name gives the month;
\* any other word is skipped by fuzzy parsing, which leaves the two numbers
\* (D, YYYY) to be read as (year, month) when D > 31, else as (month, year)
\* when YYYY > 31, else as (month, day); the fields left out come from Today
parse_month_form(ds) ==
    LET w  == WordRun(ds, 0)
        wd == lower(Slice(ds, 0, w))
        p2 == w + SpaceRun(ds, w)
        d  == int(Slice(ds, p2, p2 + DigitRun(ds, p2)))
        y  == int(Slice(ds, Len(ds) - 4, Len(ds)))
    IN  IF \E m \in 1..12 : wd \in MONTHS[m]
        THEN make_date(y, CHOOSE m \in 1..12 : wd \in MONTHS[m], d)
        ELSE IF d > 31 THEN make_date(d, y, Today[3])
        ELSE IF y > 31 THEN make_date(y, d, Today[3])
        ELSE make_date(Today[1], d, y)

dtparse_parse(ds) ==
    IF AbsNumericEnd(ds, 0) = Len(ds) THEN parse_numeric(ds)
    ELSE parse_month_form(ds)

(***************************************************************************)
(* The helpers of the module.  An event is <<date, label>>.                *)
(***************************************************************************)
\* parse_absolute_dates without the `not in seen` test
RECURSIVE AbsLoop_NoSeen(_, _, _, _)
AbsLoop_NoSeen(ms, i, seen, events) ==
    IF i > Len(ms) THEN events
    ELSE LET ds     == ms[i]
             dt_obj == dtparse_parse(ds)
         IN  IF dt_obj = ParseError THEN AbsLoop_NoSeen(ms, i + 1, seen, events)
             ELSE AbsLoop_NoSeen(ms, i + 1, seen \cup {dt_obj},
                                 Append(events, <<dt_obj, ds>>))

\* parse_absolute_dates: the loop over the matches, with its accumulators
RECURSIVE AbsLoop(_, _, _, _)
AbsLoop(ms, i, seen, events) ==
    IF i > Len(ms) THEN events
    ELSE LET ds     == ms[i]
             dt_obj == dtparse_parse(ds)
         IN  IF dt_obj = ParseError THEN AbsLoop(ms, i + 1, seen, events)
             ELSE IF dt_obj \notin seen
             THEN AbsLoop(ms, i + 1, seen \cup {dt_obj},
                          Append(events, <<dt_obj, ds>>))
             ELSE AbsLoop(ms, i + 1, seen, events)

parse_absolute_dates(text) ==
    AbsLoop(ABS_DATE_RE_findall(text, 0), 1, {}, << >>)

\* the loop with range(start_week, end_week)
RECURSIVE WeekRange_OpenEnd(_, _, _)
WeekRange_OpenEnd(wk, end_week, semester_start) ==
    IF wk >= end_week THEN << >>
    ELSE <<<<add_weeks(semester_start, wk - 1), WEEK \o <<" ">> \o str(wk)>>>>
             \o WeekRange_OpenEnd(wk + 1, end_week, semester_start)

\* for wk in range(start_week, end_week + 1): events.append(...)
RECURSIVE WeekRange(_, _, _)
WeekRange(wk, end_week, semester_start) ==
    IF wk >= end_week + 1 THEN << >>
    ELSE <<<<add_weeks(semester_start, wk - 1), WEEK \o <<" ">> \o str(wk)>>>>
             \o WeekRange(wk + 1, end_week, semester_start)

\* the events of one match with weeks=wk_num in the ordinal case
WeekEvents_OffByOne(m, semester_start) ==
    IF m.g1 # << >>
    THEN LET start_week == int(m.g1)
             end_week   == IF m.g2 # << >> THEN int(m.g2) ELSE start_week
         IN  WeekRange(start_week, end_week, semester_start)
    ELSE IF m.g3 # << >>
    THEN LET wk_num == int(m.g3)
         IN  <<<<add_weeks(semester_start, wk_num),
                 str(wk_num) \o <<" ">> \o WEEK>>>>
    ELSE << >>

\* the events one match of WEEK_RE contributes
WeekEvents(m, semester_start) ==
    IF m.g1 # << >>
    THEN LET start_week == int(m.g1)
             end_week   == IF m.g2 # << >> THEN int(m.g2) ELSE start_week
         IN  WeekRange(start_week, end_week, semester_start)
    ELSE IF m.g3 # << >>
    THEN LET wk_num == int(m.g3)
         IN  <<<<add_weeks(semester_start, wk_num - 1),
                 str(wk_num) \o <<" ">> \o WEEK>>>>
    ELSE << >>

RECURSIVE RelLoop(_, _, _)
RelLoop(ms, i, semester_start) ==
    IF i > Len(ms) THEN << >>
    ELSE WeekEvents(ms[i], semester_start) \o RelLoop(ms, i + 1, semester_start)

parse_relative_weeks(text, semester_start) ==
    RelLoop(WEEK_RE_finditer(text, 0), 1, semester_start)

\* window_context without the two lower() calls
window_context_CaseSensitive(text, keyword) ==
    LET idx == find(text, keyword)
    IN  IF idx = -1 THEN <<"E", "v", "e", "n", "t">>
        ELSE LET start == IF idx - win > 0 THEN idx - win ELSE 0
                 end   == idx + Len(keyword) + win
             IN  replace_newlines(Slice(text, start, end))

window_context(text, keyword) ==
    LET idx == find(lower(text), lower(keyword))
    IN  IF idx = -1 THEN <<"E", "v", "e", "n", "t">>
        ELSE LET start == IF idx - win > 0 THEN idx - win ELSE 0
                 end   == idx + Len(keyword) + win
             IN  replace_newlines(Slice(text, start, end))

\* for kw in KEYWORDS: if kw in ctx: return kw.capitalize()
RECURSIVE KeywordLoop(_, _)
KeywordLoop(ctx, i) ==
    IF i > Len(KEYWORDS) THEN << >>
    ELSE IF contains(ctx, KEYWORDS[i]) THEN capitalize(KEYWORDS[i])
    ELSE KeywordLoop(ctx, i + 1)

extract_title(context) ==
    LET ctx == lower(context)
        kw  == KeywordLoop(ctx, 1)
    IN  IF kw # << >> THEN kw
        ELSE IF Len(context) > TitleLen
        THEN Slice(strip(context), 0, TitleLen) \o <<Ellipsis>>
        ELSE strip(context)

\* filter_by_semester with the end of the window excluded
filter_by_semester_OpenEnd(events, sem_start, sem_end) ==
    SelectSeq(events, LAMBDA e : date_le(sem_start, e[1]) /\ ~date_le(sem_end, e[1]))

filter_by_semester(events, sem_start, sem_end) ==
    SelectSeq(events, LAMBDA e : date_le(sem_start, e[1]) /\ date_le(e[1], sem_end))

\* the order of str on the characters isoformat() produces
ord(c) == IF c = "-" THEN 45 ELSE 48 + DigitVal(c)

\* a < b on str
RECURSIVE str_lt(_, _)
str_lt(a, b) ==
    IF Len(b) = 0 THEN FALSE
    ELSE IF Len(a) = 0 THEN TRUE
    ELSE IF a[1] # b[1] THEN ord(a[1]) < ord(b[1])
    ELSE str_lt(Tail(a), Tail(b))

\* DataFrame.sort_values("Date"): rows in ascending order of the Date
\* string; rows with equal Date stay in their input order, as the default
\* sort does on tables this short
RECURSIVE insert_row(_, _)
insert_row(sorted, row) ==
    IF Len(sorted) = 0 THEN <<row>>
    ELSE IF str_lt(row[1], sorted[Len(sorted)][1])
    THEN Append(insert_row(SubSeq(sorted, 1, Len(sorted) - 1), row),
                sorted[Len(sorted)])
    ELSE Append(sorted, row)

RECURSIVE sort_values(_)
sort_values(rows) ==
    IF Len(rows) = 0 THEN << >>
    ELSE insert_row(sort_values(SubSeq(rows, 1, Len(rows) - 1)), rows[Len(rows)])

\* a row is <<Date, Event Description>>
build_calendar_df(events, text) ==
    sort_values([i \in DOMAIN events |->
        <<isoformat(events[i][1]), extract_title(window_context(text, events[i][2]))>>])

\* the calendar holds a set of Event objects; the position in the loop
\* stands for the identity of the object
ics_bytes(events, text) ==
    { [uid   |-> i,
       name  |-> extract_title(window_context(text, events[i][2])),
       begin |-> isoformat(events[i][1])] : i \in DOMAIN events }

\* the lines written after the heading, top to bottom
pdf_bytes(events, text) ==
    [i \in DOMAIN events |->
        isoformat(events[i][1]) \o <<":", " ">>
            \o extract_title(window_context(text, events[i][2]))]

\* the window test with > in the place of >=
InvalidWindow_Strict(sem_start, sem_end) == ~date_le(sem_start, sem_end)

\* semester_start >= semester_end
InvalidWindow(sem_start, sem_end) == date_le(sem_end, sem_start)

\* the page without the st.stop() after the warning
Widgets_NoStop(table) ==
    IF Len(table) = 0
    THEN {"warning", "calendar", "table", "download_ics", "download_pdf"}
    ELSE {"calendar", "table", "download_ics", "download_pdf"}

\* what the page shows once the table is there
Widgets(table) ==
    IF Len(table) = 0 THEN {"warning"}
    ELSE {"calendar", "table", "download_ics", "download_pdf"}

(***************************************************************************)
(* Inputs                                                                  *)
(***************************************************************************)
\* the number of fragments a document text is made of
MaxFrags == 3

Fragments ==
    { <<"1", "2", "/", "3", "0", "/", "2", "4", " ">>,
      <<"3", "0", "-", "1", "2", "-", "2", "0", "2", "4", " ">>,
      <<"D", "e", "c", " ", "1", "6", ",", " ", "2", "0", "2", "4", "\n">>,
      <<"1", "2", "/", "3", "2", "/", "2", "4", " ">>,
      <<"W", "e", "e", "k", " ", "3", " ">>,
      <<"w", "e", "e", "k", "s", " ", "2", "-", "3", " ">>,
      <<"w", "e", "e", "k", " ", "3", "-", "2", " ">>,
      <<"3", "r", "d", " ", "w", "e", "e", "k", " ">>,
      <<"W", "e", "e", "k", "s", " ", "1", " ">> }

\* the dates the two date inputs are drawn from
SemesterDates == { <<2024, 12, 16>>, <<2024, 12, 23>>, <<2025, 1, 6>> }

RECURSIVE Concat(_)
Concat(ss) == IF Len(ss) = 0 THEN << >> ELSE Head(ss) \o Concat(Tail(ss))

Texts == { Concat(fs) : fs \in UNION { [1..n -> Fragments] : n \in 0..MaxFrags } }

(***************************************************************************)
(* One run of the script                                                   *)
(***************************************************************************)
VARIABLES
    pc,              \* where the run is
    uploaded_file,   \* TRUE when a file has been uploaded
    text,            \* the text of the uploaded file
    semester_start, semester_end,
    abs_events, rel_events, all_events,   \* the locals of process
    df, ics_data, pdf_data,               \* what process returns
    process_calls,   \* how many times process has been executed
    shown,           \* what the page shows
    label, context, title   \* one call of the title inference

vars == <<pc, uploaded_file, text, semester_start, semester_end, abs_events,
          rel_events, all_events, df, ics_data, pdf_data, process_calls, shown,
          label, context, title>>

inputs == <<uploaded_file, text, semester_start, semester_end, label, context,
            title>>

results == <<abs_events, rel_events, all_events, df, ics_data, pdf_data,
             process_calls>>

Init ==
    /\ pc = "start"
    /\ uploaded_file \in BOOLEAN
    /\ text \in (IF uploaded_file THEN Texts ELSE {<< >>})
    /\ semester_start \in SemesterDates
    /\ semester_end \in SemesterDates
    /\ abs_events = << >> /\ rel_events = << >> /\ all_events = << >>
    /\ df = << >> /\ ics_data = {} /\ pdf_data = << >>
    /\ process_calls = 0
    /\ shown = {}
    /\ label = << >> /\ context = << >> /\ title = << >>

\* lines 168-170: the window is rejected, st.error and st.stop (the two
\* dates of st.date_input are never None, so only the comparison decides)
RejectWindow ==
    /\ pc = "start"
    /\ InvalidWindow(semester_start, semester_end)
    /\ shown' = shown \cup {"error"}
    /\ pc' = "stopped"
    /\ UNCHANGED <<inputs, results>>

\* line 168, condition false
AcceptWindow ==
    /\ pc = "start"
    /\ ~InvalidWindow(semester_start, semester_end)
    /\ pc' = "checked"
    /\ UNCHANGED <<inputs, results, shown>>

\* line 172, condition false: the script ends with the input widgets only
NoUpload ==
    /\ pc = "checked"
    /\ ~uploaded_file
    /\ pc' = "done"
    /\ UNCHANGED <<inputs, results, shown>>

\* lines 172-185: process
Process ==
    /\ pc = "checked"
    /\ uploaded_file
    /\ abs_events' = parse_absolute_dates(text)
    /\ rel_events' = parse_relative_weeks(text, semester_start)
    /\ all_events' = filter_by_semester(abs_events' \o rel_events',
                                        semester_start, semester_end)
    /\ df' = build_calendar_df(all_events', text)
    /\ ics_data' = ics_bytes(all_events', text)
    /\ pdf_data' = pdf_bytes(all_events', text)
    /\ process_calls' = process_calls + 1
    /\ pc' = "processed"
    /\ UNCHANGED <<inputs, shown>>

\* lines 187-189: df.empty, st.warning and st.stop
WarnEmpty ==
    /\ pc = "processed"
    /\ Len(df) = 0
    /\ shown' = shown \cup Widgets(df)
    /\ pc' = "stopped"
    /\ UNCHANGED <<inputs, results>>

\* lines 191-209: the calendar, the table and the two download buttons
Render ==
    /\ pc = "processed"
    /\ Len(df) # 0
    /\ shown' = shown \cup Widgets(df)
    /\ pc' = "done"
    /\ UNCHANGED <<inputs, results>>

Next ==
    \/ RejectWindow
    \/ AcceptWindow
    \/ NoUpload
    \/ Process
    \/ WarnEmpty
    \/ Render

Spec == Init /\ [][Next]_vars

(***************************************************************************)
(* The title inference on its own: extract_title(window_context(text,      *)
(* label)) for texts long enough to reach the window and the cut.          *)
(***************************************************************************)
\* the number of whitespace characters at either end of a text
MaxSpaces == 1

Pad(n, c) == [i \in 1..n |-> c]

\* the lengths of the filler between the pieces of a text: none, the two
\* that bring a six-character piece to TitleLen and TitleLen + 1, and one
\* longer than the window
FillerLens == {0, TitleLen - 6, TitleLen - 5, win + 1}

Cores ==
    { <<>>,
      <<"W", "e", "e", "k", " ", "3">>,
      <<"w", "e", "e", "k", " ", "3">>,
      <<"W", "E", "E", "K", " ", "3", "\n">>,
      <<"3", "r", "d", " ", "w", "e", "e", "k">>,
      <<"Q", "u", "i", "z">> }

Labels ==
    { <<"w", "e", "e", "k", " ", "3">>,
      <<"W", "e", "e", "k", " ", "3">>,
      <<"3", " ", "w", "e", "e", "k">>,
      <<"q", "u", "i", "z">> }

TitleTexts ==
    { Pad(a, " ") \o Pad(b, "x") \o c1 \o Pad(c, "y") \o c2 \o Pad(d, "\n") :
        a \in 0..MaxSpaces, b \in FillerLens, c1 \in Cores,
        c \in FillerLens, c2 \in Cores, d \in 0..MaxSpaces }

InitTitle ==
    /\ pc = "title_input"
    /\ text \in TitleTexts
    /\ label \in Labels
    /\ context = << >> /\ title = << >>
    /\ uploaded_file = TRUE
    /\ semester_start = <<2024, 12, 16>> /\ semester_end = <<2025, 1, 6>>
    /\ abs_events = << >> /\ rel_events = << >> /\ all_events = << >>
    /\ df = << >> /\ ics_data = {} /\ pdf_data = << >>
    /\ process_calls = 0
    /\ shown = {}

\* window_context(text, lbl)
WindowContext ==
    /\ pc = "title_input"
    /\ context' = window_context(text, label)
    /\ pc' = "title_context"
    /\ UNCHANGED <<uploaded_file, text, semester_start, semester_end, label,
                   title, results, shown>>

\* extract_title(...)
ExtractTitle ==
    /\ pc = "title_context"
    /\ title' = extract_title(context)
    /\ pc' = "title_done"
    /\ UNCHANGED <<uploaded_file, text, semester_start, semester_end, label,
                   context, results, shown>>

NextTitle ==
    \/ WindowContext
    \/ ExtractTitle

SpecTitle == InitTitle /\ [][NextTitle]_vars

(***************************************************************************)
(* Properties                                                              *)
(***************************************************************************)
\* a before b on dates, field by field
DateLt(a, b) ==
    \/ a[1] < b[1]
    \/ a[1] = b[1] /\ a[2] < b[2]
    \/ a[1] = b[1] /\ a[2] = b[2] /\ a[3] < b[3]

\* C1: the EventTable built by the pipeline contains no two rows with the
\* same date, also when a date literal and a week reference, or two week
\* references, resolve to the same date.
C1_NoDuplicateDates ==
    process_calls = 1 =>
        \A i, j \in DOMAIN df : i # j => df[i][1] # df[j][1]

\* C2: the lines of the report are the rows of the EventTable in the order
\* of the table, and the entries of the calendar file are the rows of the
\* EventTable.
C2_ExportersFollowTable ==
    process_calls = 1 =>
        /\ pdf_data = [i \in DOMAIN df |-> df[i][1] \o <<":", " ">> \o df[i][2]]
        /\ {<<e.begin, e.name>> : e \in ics_data}
               = {<<df[i][1], df[i][2]>> : i \in DOMAIN df}

\* C3: with semester start >= semester end the run ends in the error state
\* and process is never executed; process only ever runs with start < end.
C3_InvalidWindowRejected ==
    /\ process_calls > 0 => DateLt(semester_start, semester_end)
    /\ (~DateLt(semester_start, semester_end) /\ pc # "start") =>
           /\ pc = "stopped"
           /\ "error" \in shown
           /\ process_calls = 0
           /\ df = << >> /\ ics_data = {} /\ pdf_data = << >>

C3_Witness ==
    /\ pc = "stopped"
    /\ uploaded_file /\ text # << >>
    /\ semester_start = semester_end
    /\ "error" \in shown

\* C4: parse_absolute_dates returns no two events with the same date; the
\* label of a date is the first match, in text order, that parses to it;
\* matches that do not parse are skipped and the matches after them are
\* still read; the events are in the order in which their dates first appear.
C4_AbsoluteDatesDeduplicated ==
    process_calls = 1 =>
        LET ms        == ABS_DATE_RE_findall(text, 0)
            Parsed(k) == dtparse_parse(ms[k])
            First(d)  == CHOOSE k \in DOMAIN ms :
                             Parsed(k) = d /\ \A h \in 1..(k - 1) : Parsed(h) # d
        IN  /\ \A i, j \in DOMAIN abs_events :
                   i < j => abs_events[i][1] # abs_events[j][1]
            /\ \A i \in DOMAIN abs_events :
                   /\ \E k \in DOMAIN ms : Parsed(k) = abs_events[i][1]
                   /\ abs_events[i][2] = ms[First(abs_events[i][1])]
            /\ \A i, j \in DOMAIN abs_events :
                   i < j => First(abs_events[i][1]) < First(abs_events[j][1])
            /\ \A k \in DOMAIN ms :
                   Parsed(k) # ParseError =>
                       \E i \in DOMAIN abs_events : abs_events[i][1] = Parsed(k)

C4_Witness ==
    LET ms == ABS_DATE_RE_findall(text, 0)
    IN  /\ process_calls = 1
        /\ Len(ms) = 3
        /\ dtparse_parse(ms[1]) # ParseError
        /\ dtparse_parse(ms[2]) = ParseError
        /\ dtparse_parse(ms[3]) = dtparse_parse(ms[1])
        /\ abs_events = <<<<dtparse_parse(ms[1]), ms[1]>>>>

\* C7: filter_by_semester returns exactly the events of its input whose
\* date d satisfies start <= d <= end, in their input order, unaltered.
C7_FilterIsWindowSubsequence ==
    process_calls = 1 =>
        LET inp    == abs_events \o rel_events
            keep   == {i \in DOMAIN inp :
                          /\ ~DateLt(inp[i][1], semester_start)
                          /\ ~DateLt(semester_end, inp[i][1])}
            nth(n) == CHOOSE i \in keep : Cardinality({j \in keep : j <= i}) = n
        IN  /\ Len(all_events) = Cardinality(keep)
            /\ \A n \in DOMAIN all_events : all_events[n] = inp[nth(n)]

C7_Witness ==
    /\ process_calls = 1
    /\ Len(all_events) >= 2
    /\ Len(all_events) < Len(abs_events) + Len(rel_events)
    /\ \E i \in DOMAIN all_events : all_events[i][1] = semester_end
    /\ \E i \in DOMAIN all_events : all_events[i][1] = semester_start

WeekOf(m) == int(IF m.g1 # << >> THEN m.g1 ELSE m.g3)

\* the date of week k, counted in days from the semester start
IsWeekDate(d, k) == toordinal(d) = toordinal(semester_start) + 7 * (k - 1)

\* C5: for every single-week reference to week N, in the form `week N`,
\* `weeks N` or `Nth week`, parse_relative_weeks emits exactly one event,
\* at semester_start + (N-1) weeks, with the label "week N".
C5_SingleWeekLabelWeekN ==
    process_calls = 1 =>
        LET ms == WEEK_RE_finditer(text, 0)
        IN  (\A k \in DOMAIN ms : ms[k].g2 = << >>) =>
                /\ Len(rel_events) = Len(ms)
                /\ \A k \in DOMAIN ms :
                       /\ IsWeekDate(rel_events[k][1], WeekOf(ms[k]))
                       /\ rel_events[k][2] = WEEK \o <<" ">> \o str(WeekOf(ms[k]))

\* C5 as amended: exactly one event per single-week reference, at
\* semester_start + (N-1) weeks; the label is "week N" for the forms
\* `week N` and `weeks N`, and "N week" for the ordinal form `Nth week`.
C5_SingleWeekLabelByForm ==
    process_calls = 1 =>
        LET ms == WEEK_RE_finditer(text, 0)
        IN  (\A k \in DOMAIN ms : ms[k].g2 = << >>) =>
                /\ Len(rel_events) = Len(ms)
                /\ \A k \in DOMAIN ms :
                       /\ IsWeekDate(rel_events[k][1], WeekOf(ms[k]))
                       /\ rel_events[k][2] =
                              IF ms[k].g1 # << >>
                              THEN WEEK \o <<" ">> \o str(WeekOf(ms[k]))
                              ELSE str(WeekOf(ms[k])) \o <<" ">> \o WEEK

C5_Witness ==
    LET ms == WEEK_RE_finditer(text, 0)
    IN  /\ process_calls = 1
        /\ Len(ms) = 3 /\ Len(rel_events) = 3
        /\ \A k \in DOMAIN ms : ms[k].g2 = << >>
        /\ \E k \in DOMAIN ms : ms[k].g3 # << >>
        /\ \E k \in DOMAIN ms : ms[k].g1 # << >> /\ LitAt(text, ms[k].end - 3, <<"s">>)
        /\ \E k \in DOMAIN ms : ms[k].g1 # << >> /\ LitAt(text, ms[k].end - 3, <<"k">>)

\* the number of events a match must contribute: one for a single week,
\* M - N + 1 for a range N-M, none for a range with N > M
WeekCount(m) ==
    IF m.g2 = << >> THEN 1
    ELSE IF int(m.g2) < int(m.g1) THEN 0
    ELSE int(m.g2) - int(m.g1) + 1

\* the number of events the matches before the k-th must contribute
RECURSIVE WeekOffset(_, _)
WeekOffset(ms, k) ==
    IF k <= 1 THEN 0 ELSE WeekOffset(ms, k - 1) + WeekCount(ms[k - 1])

\* C6: for a range match N-M parse_relative_weeks emits exactly one event
\* per week index k with N <= k <= M, at semester_start + (k-1) weeks, and
\* so no event at all when N > M.
C6_WeekRangeExpanded ==
    process_calls = 1 =>
        LET ms == WEEK_RE_finditer(text, 0)
        IN  /\ Len(rel_events) = WeekOffset(ms, Len(ms) + 1)
            /\ \A k \in DOMAIN ms :
                   ms[k].g2 # << >> =>
                       \A w \in int(ms[k].g1)..int(ms[k].g2) :
                           LET e == rel_events[WeekOffset(ms, k) + w - int(ms[k].g1) + 1]
                           IN  /\ IsWeekDate(e[1], w)
                               /\ e[2] = WEEK \o <<" ">> \o str(w)

C6_Witness ==
    LET ms == WEEK_RE_finditer(text, 0)
    IN  /\ process_calls = 1
        /\ Len(ms) = 2
        /\ ms[1].g2 # << >> /\ int(ms[1].g1) > int(ms[1].g2)
        /\ ms[2].g2 # << >> /\ int(ms[2].g1) < int(ms[2].g2)
        /\ Len(rel_events) = 2

Event == <<"E", "v", "e", "n", "t">>

\* the window of win characters either side of the n characters at idx,
\* newlines turned into spaces
WindowAt(t, idx, n) ==
    LET lo == IF idx > win THEN idx - win ELSE 0
        hi == IF idx + n + win < Len(t) THEN idx + n + win ELSE Len(t)
    IN  [i \in 1..(hi - lo) |-> IF t[lo + i] = "\n" THEN " " ELSE t[lo + i]]

\* the positions at which the label occurs in the text, with or without
\* regard to letter case
Occurrences(t, lbl, fold) ==
    {p \in 0..(Len(t) - Len(lbl)) :
        \A i \in 1..Len(lbl) :
            IF fold THEN lower_char(t[p + i]) = lower_char(lbl[i])
            ELSE t[p + i] = lbl[i]}

Least(S) == CHOOSE p \in S : \A q \in S : p <= q

\* C9: the label is located by case-sensitive search: when it does not
\* occur in the text with exactly the same letter case the title is
\* "Event", otherwise the title comes from the window around its first
\* case-sensitive occurrence.
C9_CaseSensitiveLookup ==
    pc = "title_done" =>
        LET hits == Occurrences(text, label, FALSE)
        IN  IF hits = {} THEN title = Event
            ELSE /\ context = WindowAt(text, Least(hits), Len(label))
                 /\ title = extract_title(WindowAt(text, Least(hits), Len(label)))

\* C9 as amended: the label is located by case-insensitive search (text and
\* label are both lower-cased): when it does not occur in the text in any
\* letter case the title is "Event", otherwise the title comes from the
\* window around its first case-insensitive occurrence.
C9_CaseInsensitiveLookup ==
    pc = "title_done" =>
        LET hits == Occurrences(text, label, TRUE)
        IN  IF hits = {} THEN title = Event
            ELSE /\ context = WindowAt(text, Least(hits), Len(label))
                 /\ title = extract_title(WindowAt(text, Least(hits), Len(label)))

C9_Witness ==
    /\ pc = "title_done"
    /\ Occurrences(text, label, FALSE) = {}
    /\ Occurrences(text, label, TRUE) # {}
    /\ Least(Occurrences(text, label, TRUE)) > win
    /\ title # Event

\* C10: for a context window with none of the keywords, extract_title
\* returns the trimmed window unchanged when it has at most 40 characters,
\* and otherwise its first 40 characters followed by the ellipsis; the
\* ellipsis is there exactly when characters were cut off.
C10_EllipsisIffCut ==
    pc = "title_done" =>
        LET trimmed == strip(context)
        IN  (\A i \in DOMAIN KEYWORDS : ~contains(lower(context), KEYWORDS[i])) =>
                title = IF Len(trimmed) <= TitleLen THEN trimmed
                        ELSE SubSeq(trimmed, 1, TitleLen) \o <<Ellipsis>>

=============================================================================
